---- MODULE Spec2Model ----
(***************************************************************************)
(* A model of pdf2neo4j.py: PDF text -> regular-expression triples ->      *)
(* Cypher MERGE text -> one call to the Neo4j session.                     *)
(*                                                                         *)
(* A text is a sequence of characters, each character a one-element        *)
(* string.  TLA+ strings are ASCII, so a Hangul syllable is written        *)
(* "K_<romanisation>": "K_peu","K_ro","K_jek","K_teu" is 프로젝트.             *)
(***************************************************************************)
EXTENDS Integers, Sequences, FiniteSets, TLC

\* ------------------------------------------------------------------ bounds

\* Pages of one PDF.
MaxPages == 2
\* Triples handed to generate_cypher_query in CompileSpec.
MaxTriples == 2
\* Statement applications the sink performs in CompileSpec.
MaxApply == 4

\* ------------------------------------------------------------- characters

Upper ==
  {"A", "B", "C", "D", "E", "F", "G", "H", "I", "J", "K", "L", "M",
   "N", "O", "P", "Q", "R", "S", "T", "U", "V", "W", "X", "Y", "Z"}

Lower ==
  {"a", "b", "c", "d", "e", "f", "g", "h", "i", "j", "k", "l", "m",
   "n", "o", "p", "q", "r", "s", "t", "u", "v", "w", "x", "y", "z"}

Digit == {"0", "1", "2", "3", "4", "5", "6", "7", "8", "9"}

Hangul ==
  {"K_peu", "K_ro", "K_jek", "K_teu", "K_eun", "K_gi", "K_sul", "K_eul",
   "K_keom", "K_peo", "K_ni", "K_e", "K_seo", "K_reul", "K_su", "K_haeng",
   "K_neun", "K_san", "K_eop", "K_bun", "K_ya", "K_ui", "K_geum", "K_yung",
   "K_sa", "K_yong", "K_ha", "K_myeo", "K_ron"}

\* re: \w (str patterns are Unicode-aware: letters of any script, digits, "_").
WordChar == Upper \cup Lower \cup Digit \cup Hangul \cup {"_"}

\* str.strip(): the whitespace it removes.
Whitespace == {" ", "\t", "\n", "\r", "\f"}

\* F of the value of x, with x evaluated once however often F uses it.
With(x, F(_)) == CHOOSE r \in {F(v) : v \in {x}} : TRUE

Max(S) == CHOOSE x \in S : \A y \in S : y <= x

Min(S) == CHOOSE x \in S : \A y \in S : x <= y

\* text[i:] starts with lit (i is 1-based).
LitAt(text, i, lit) ==
  /\ i + Len(lit) - 1 <= Len(text)
  /\ \A j \in 1..Len(lit) : text[i + j - 1] = lit[j]

\* [A-Z]{n} at i.
Uppers(text, i, n) ==
  /\ i + n - 1 <= Len(text)
  /\ \A j \in i..(i + n - 1) : text[j] \in Upper

\* \w{k} at i.
Words(text, i, k) ==
  /\ i + k - 1 <= Len(text)
  /\ \A j \in i..(i + k - 1) : text[j] \in WordChar

\* .{k} at i: any character but a newline.
Dots(text, i, k) ==
  /\ i + k - 1 <= Len(text)
  /\ \A j \in i..(i + k - 1) : text[j] # "\n"

RECURSIVE LStrip(_)
LStrip(s) ==
  IF s # <<>> /\ Head(s) \in Whitespace THEN LStrip(Tail(s)) ELSE s

RECURSIVE RStrip(_)
RStrip(s) ==
  IF s # <<>> /\ s[Len(s)] \in Whitespace
  THEN RStrip(SubSeq(s, 1, Len(s) - 1))
  ELSE s

\* str.strip()
Strip(s) == RStrip(LStrip(s))

\* ------------------------------------------------- the patterns' literals

\* "프로젝트 "
LitProject == <<"K_peu", "K_ro", "K_jek", "K_teu", " ">>
\* "은 "
LitEun == <<"K_eun", " ">>
\* " 기술"  (inside the second group of the first pattern)
LitTech == <<" ", "K_gi", "K_sul">>
\* "을"
LitEul == <<"K_eul">>
\* " 컴퍼니"  (inside the first group of the second and third patterns)
LitCompany == <<" ", "K_keom", "K_peo", "K_ni">>
\* "에서 "
LitEseo == <<"K_e", "K_seo", " ">>
\* "를 수행"
LitConducts == <<"K_reul", " ", "K_su", "K_haeng">>
\* "는 "
LitNeun == <<"K_neun", " ">>
\* " 산업"  (inside the second group of the third pattern)
LitIndustry == <<" ", "K_san", "K_eop">>
\* " 분야의"
LitField == <<" ", "K_bun", "K_ya", "K_ui">>

NoMatch == [ok |-> FALSE, end |-> 0, groups |-> <<>>]

\* ---- r"(프로젝트 [A-Z]{1,3})은 (.+? 기술)을"

\* The lengths k the lazy .+? can take when it starts at q.
ProjectTechLazy(text, q) ==
  {k \in 1..Len(text) :
     /\ LitAt(text, q + k, LitTech \o LitEul)
     /\ Dots(text, q, k)}

\* The counts n of [A-Z]{1,3} with which the whole pattern matches at i.
ProjectTechGreedy(text, i) ==
  {n \in 1..3 :
     /\ LitAt(text, i, LitProject)
     /\ Uppers(text, i + Len(LitProject), n)
     /\ LitAt(text, i + Len(LitProject) + n, LitEun)
     /\ ProjectTechLazy(text, i + Len(LitProject) + n + Len(LitEun)) # {}}

\* The pattern with the keyword outside the second group:
\* r"(프로젝트 [A-Z]{1,3})은 (.+?) 기술을".
ProjectTechMatchBare(text, i) ==
  IF ProjectTechGreedy(text, i) = {} THEN NoMatch
  ELSE LET n == Max(ProjectTechGreedy(text, i))
           p == i + Len(LitProject) + n
           q == p + Len(LitEun)
           k == Min(ProjectTechLazy(text, q))
       IN  [ok |-> TRUE,
            end |-> q + k + Len(LitTech) + Len(LitEul),
            groups |-> <<SubSeq(text, i, p - 1),
                         SubSeq(text, q, q + k - 1)>>]

\* re's match at i: the greedy count tried longest first, the lazy one
\* shortest first.  end is the position after the match.
ProjectTechMatch(text, i) ==
  IF ProjectTechGreedy(text, i) = {} THEN NoMatch
  ELSE LET n == Max(ProjectTechGreedy(text, i))
           p == i + Len(LitProject) + n
           q == p + Len(LitEun)
           k == Min(ProjectTechLazy(text, q))
       IN  [ok |-> TRUE,
            end |-> q + k + Len(LitTech) + Len(LitEul),
            groups |-> <<SubSeq(text, i, p - 1),
                         SubSeq(text, q, q + k + Len(LitTech) - 1)>>]

\* ---- r"(\w+? 컴퍼니)에서 (프로젝트 [A-Z]{1,3})를 수행"

CompanyProjGreedy(text, p) ==
  {n \in 1..3 :
     /\ Uppers(text, p, n)
     /\ LitAt(text, p + n, LitConducts)}

CompanyProjLazy(text, i) ==
  {k \in 1..Len(text) :
     /\ LitAt(text, i + k, LitCompany \o LitEseo \o LitProject)
     /\ Words(text, i, k)
     /\ CompanyProjGreedy(text, i + k + Len(LitCompany) + Len(LitEseo)
                                  + Len(LitProject)) # {}}

CompanyProjMatch(text, i) ==
  IF CompanyProjLazy(text, i) = {} THEN NoMatch
  ELSE LET k == Min(CompanyProjLazy(text, i))
           g == i + k + Len(LitCompany) + Len(LitEseo)
           p == g + Len(LitProject)
           n == Max(CompanyProjGreedy(text, p))
       IN  [ok |-> TRUE,
            end |-> p + n + Len(LitConducts),
            groups |-> <<SubSeq(text, i, i + k + Len(LitCompany) - 1),
                         SubSeq(text, g, p + n - 1)>>]

\* ---- r"(\w+? 컴퍼니)는 (.+? 산업) 분야의"

CompanyIndLazy2(text, q) ==
  {k \in 1..Len(text) :
     /\ LitAt(text, q + k, LitIndustry \o LitField)
     /\ Dots(text, q, k)}

CompanyIndLazy1(text, i) ==
  {k \in 1..Len(text) :
     /\ LitAt(text, i + k, LitCompany \o LitNeun)
     /\ Words(text, i, k)
     /\ CompanyIndLazy2(text, i + k + Len(LitCompany) + Len(LitNeun)) # {}}

CompanyIndMatch(text, i) ==
  IF CompanyIndLazy1(text, i) = {} THEN NoMatch
  ELSE LET k1 == Min(CompanyIndLazy1(text, i))
           q == i + k1 + Len(LitCompany) + Len(LitNeun)
           k2 == Min(CompanyIndLazy2(text, q))
       IN  [ok |-> TRUE,
            end |-> q + k2 + Len(LitIndustry) + Len(LitField),
            groups |-> <<SubSeq(text, i, i + k1 + Len(LitCompany) - 1),
                         SubSeq(text, q, q + k2 + Len(LitIndustry) - 1)>>]

\* re.findall: the match at the first position from pos on where the pattern
\* matches, then on from its end; the matches do not overlap.  Each result is
\* the pair of groups.
RECURSIVE FindProjectTech(_, _)
FindProjectTech(text, pos) ==
  LET starts == {i \in pos..Len(text) : ProjectTechMatch(text, i).ok}
  IN  IF starts = {} THEN <<>>
      ELSE LET m == ProjectTechMatch(text, Min(starts))
           IN  <<m.groups>> \o FindProjectTech(text, m.end)

RECURSIVE FindCompanyProj(_, _)
FindCompanyProj(text, pos) ==
  LET starts == {i \in pos..Len(text) : CompanyProjMatch(text, i).ok}
  IN  IF starts = {} THEN <<>>
      ELSE LET m == CompanyProjMatch(text, Min(starts))
           IN  <<m.groups>> \o FindCompanyProj(text, m.end)

RECURSIVE FindCompanyInd(_, _)
FindCompanyInd(text, pos) ==
  LET starts == {i \in pos..Len(text) : CompanyIndMatch(text, i).ok}
  IN  IF starts = {} THEN <<>>
      ELSE LET m == CompanyIndMatch(text, Min(starts))
           IN  <<m.groups>> \o FindCompanyInd(text, m.end)

project_keywords(text) == FindProjectTech(text, 1)

company_proj_keywords(text) == FindCompanyProj(text, 1)

industry_keywords(text) == FindCompanyInd(text, 1)

\* One triple per match: (n1 type, n1 name, relation, n2 type, n2 name).
TriplesOf(matches, n1_type, relation, n2_type) ==
  [i \in 1..Len(matches) |->
     <<n1_type, Strip(matches[i][1]), relation, n2_type, Strip(matches[i][2])>>]

\* The extraction appending a triple only when it is not yet in the list.
mock_nlp_to_triples_once(text) ==
  LET all == TriplesOf(project_keywords(text),
                       "Project", "USES_TECH", "Technology")
             \o TriplesOf(company_proj_keywords(text),
                          "Company", "CONDUCTS", "Project")
             \o TriplesOf(industry_keywords(text),
                          "Company", "BELONGS_TO", "Industry")
  IN  SelectSeq([i \in 1..Len(all) |->
                   IF \E j \in 1..(i - 1) : all[j] = all[i]
                   THEN <<>> ELSE all[i]],
                LAMBDA t : t # <<>>)

mock_nlp_to_triples(text) ==
  TriplesOf(project_keywords(text), "Project", "USES_TECH", "Technology")
  \o TriplesOf(company_proj_keywords(text), "Company", "CONDUCTS", "Project")
  \o TriplesOf(industry_keywords(text), "Company", "BELONGS_TO", "Industry")

\* ------------------------------------------------- generate_cypher_query

\* The labels and relation types of the rule table, as characters.
Chars ==
  [Project |-> <<"P", "r", "o", "j", "e", "c", "t">>,
   Technology |-> <<"T", "e", "c", "h", "n", "o", "l", "o", "g", "y">>,
   Company |-> <<"C", "o", "m", "p", "a", "n", "y">>,
   Industry |-> <<"I", "n", "d", "u", "s", "t", "r", "y">>,
   USES_TECH |-> <<"U", "S", "E", "S", "_", "T", "E", "C", "H">>,
   CONDUCTS |-> <<"C", "O", "N", "D", "U", "C", "T", "S">>,
   BELONGS_TO |-> <<"B", "E", "L", "O", "N", "G", "S", "_", "T", "O">>]

\* The f-string's fixed pieces (the doubled braces are single ones).
\* "\n        MERGE (n1:"
TplN1 ==
  <<"\n", " ", " ", " ", " ", " ", " ", " ", " ",
    "M", "E", "R", "G", "E", " ", "(", "n", "1", ":">>
\* " {name: '"
TplName == <<" ", "{", "n", "a", "m", "e", ":", " ", "'">>
\* "'})\n        MERGE (n2:"
TplN2 ==
  <<"'", "}", ")", "\n", " ", " ", " ", " ", " ", " ", " ", " ",
    "M", "E", "R", "G", "E", " ", "(", "n", "2", ":">>
\* "'})\n        MERGE (n1)-[:"
TplRel ==
  <<"'", "}", ")", "\n", " ", " ", " ", " ", " ", " ", " ", " ",
    "M", "E", "R", "G", "E", " ", "(", "n", "1", ")", "-", "[", ":">>
\* "]->(n2);\n        "
TplEnd ==
  <<"]", "-", ">", "(", "n", "2", ")", ";",
    "\n", " ", " ", " ", " ", " ", " ", " ", " ">>

\* name.replace("'", "\\'"): a backslash before every quote, and nothing else.
RECURSIVE Safe(_)
Safe(name) ==
  IF name = <<>> THEN <<>>
  ELSE IF Head(name) = "'" THEN <<"\\", "'">> \o Safe(Tail(name))
  ELSE <<Head(name)>> \o Safe(Tail(name))

\* The loop body: the text of one triple's statement.
Cypher(triple) ==
  TplN1 \o Chars[triple[1]] \o TplName \o Safe(triple[2])
  \o TplN2 \o Chars[triple[4]] \o TplName \o Safe(triple[5])
  \o TplRel \o Chars[triple[3]] \o TplEnd

\* The loop putting each statement in front of the ones before it.
CypherPartsReversed(triples) ==
  [i \in 1..Len(triples) |-> Cypher(triples[Len(triples) + 1 - i])]

\* cypher_parts when the loop ends: one text per triple, in order.
CypherParts(triples) == [i \in 1..Len(triples) |-> Cypher(triples[i])]

RECURSIVE Join(_, _)
Join(parts, sep) ==
  IF parts = <<>> THEN <<>>
  ELSE IF Len(parts) = 1 THEN parts[1]
  ELSE parts[1] \o sep \o Join(Tail(parts), sep)

generate_cypher_query(triples) == Join(CypherParts(triples), <<"\n">>)

\* ------------------------------------------------------------- the sink
\* session.run hands the text to the graph database.  What follows is the
\* database's reading of it, for the fragment of Cypher the compiler emits
\* and a name can inject: MERGE and CREATE of a node or of one edge between
\* two bound variables.  Any other text is a syntax error, and a query in
\* error changes nothing (an auto-commit transaction rolls back).

\* The backslashes that stand directly before position j, counted back to
\* the literal's first character at position from.
BackslashRun(text, from, j) ==
  (j - 1) - Max({m \in (from - 1)..(j - 1) : m = from - 1 \/ text[m] # "\\"})

\* A backslash escapes the next character: the character at j is escaped
\* when an odd number of backslashes stands before it.
Escaped(text, from, j) == BackslashRun(text, from, j) % 2 = 1

\* The positions lo..hi, in order.
Positions(lo, hi) == [n \in 1..(hi - lo + 1) |-> lo + n - 1]

\* The '...' literal whose first character is at from: an unescaped quote
\* ends it, and an unescaped backslash is dropped from its value.  end is
\* the position after the closing quote; ok is FALSE when no quote closes it.
ReadString(text, from) ==
  LET closing == {j \in from..Len(text) :
                    text[j] = "'" /\ ~Escaped(text, from, j)}
  IN  IF closing = {} THEN [ok |-> FALSE, end |-> Len(text) + 1, val |-> <<>>]
      ELSE LET close == Min(closing)
               Kept(j) == text[j] # "\\" \/ Escaped(text, from, j)
               kept == SelectSeq(Positions(from, close - 1), Kept)
           IN  [ok |-> TRUE,
                end |-> close + 1,
                val |-> [n \in 1..Len(kept) |-> text[kept[n]]]]

\* The position after the next newline (a // comment ends there).
SkipLine(text, i) ==
  Min({j \in (i + 1)..(Len(text) + 1) : j = Len(text) + 1 \/ text[j - 1] = "\n"})

\* The first position from i on that holds no word character.
WordEnd(text, i) ==
  Min({j \in i..(Len(text) + 1) : j = Len(text) + 1 \/ text[j] \notin WordChar})

\* The literals and // comments of the text from position i on, in order;
\* each spans start..end-1.  Nothing follows a literal that is not closed.
RECURSIVE Regions(_, _)
Regions(text, i) ==
  LET opens == {j \in i..Len(text) :
                  \/ text[j] = "'"
                  \/ text[j] = "/" /\ j < Len(text) /\ text[j + 1] = "/"}
  IN  IF opens = {} THEN <<>>
      ELSE With(Min(opens), LAMBDA j :
             IF text[j] # "'"
             THEN With(SkipLine(text, j), LAMBDA end :
                    <<[str |-> FALSE, ok |-> TRUE, start |-> j,
                       end |-> end, val |-> <<>>]>>
                    \o Regions(text, end))
             ELSE With(ReadString(text, j + 1), LAMBDA s :
                    <<[str |-> TRUE, ok |-> s.ok, start |-> j,
                       end |-> s.end, val |-> s.val]>>
                    \o (IF s.ok THEN Regions(text, s.end) ELSE <<>>)))

\* The tokens of a text whose literals and comments are regions: literals
\* (str, or err when not closed), runs of word characters (word) and single
\* other characters (sym); whitespace and comments separate tokens.
LexRegions(text, regions) ==
  LET InRegion(j) == \E r \in 1..Len(regions) :
                        regions[r].start <= j /\ j < regions[r].end
      RegionAt(j) == regions[CHOOSE r \in 1..Len(regions) : regions[r].start = j]
      IsStart(j) ==
        IF InRegion(j)
        THEN \E r \in 1..Len(regions) : regions[r].start = j /\ regions[r].str
        ELSE /\ text[j] \notin Whitespace
             /\ text[j] \in WordChar =>
                  (j = 1 \/ InRegion(j - 1) \/ text[j - 1] \notin WordChar)
      TokenAt(j) ==
        IF InRegion(j)
        THEN IF RegionAt(j).ok THEN [t |-> "str", v |-> RegionAt(j).val]
             ELSE [t |-> "err", v |-> <<>>]
        ELSE IF text[j] \in WordChar
        THEN [t |-> "word", v |-> SubSeq(text, j, WordEnd(text, j) - 1)]
        ELSE [t |-> "sym", v |-> <<text[j]>>]
  IN  With(SelectSeq(Positions(1, Len(text)), IsStart),
           LAMBDA starts : [n \in 1..Len(starts) |-> TokenAt(starts[n])])

Lex(text) == With(Regions(text, 1), LAMBDA regions : LexRegions(text, regions))

Tok(toks, p) == IF p \in 1..Len(toks) THEN toks[p] ELSE [t |-> "eof", v |-> <<>>]

IsSym(toks, p, c) == Tok(toks, p) = [t |-> "sym", v |-> <<c>>]

NoNode == [var |-> <<>>, label |-> <<>>, hasProp |-> FALSE, key |-> <<>>, val |-> <<>>]

\* ( [var] [:label] [{key: 'val'}] )
ParseNode(toks, p) ==
  IF ~IsSym(toks, p, "(") THEN [ok |-> FALSE, end |-> p, node |-> NoNode]
  ELSE LET hasVar == Tok(toks, p + 1).t = "word"
           p1 == IF hasVar THEN p + 2 ELSE p + 1
           hasLabel == IsSym(toks, p1, ":") /\ Tok(toks, p1 + 1).t = "word"
           p2 == IF hasLabel THEN p1 + 2 ELSE p1
           hasProp == /\ IsSym(toks, p2, "{")
                      /\ Tok(toks, p2 + 1).t = "word"
                      /\ IsSym(toks, p2 + 2, ":")
                      /\ Tok(toks, p2 + 3).t = "str"
                      /\ IsSym(toks, p2 + 4, "}")
           p3 == IF hasProp THEN p2 + 5 ELSE p2
       IN  [ok |-> IsSym(toks, p3, ")"),
            end |-> p3 + 1,
            node |-> [var |-> IF hasVar THEN Tok(toks, p + 1).v ELSE <<>>,
                      label |-> IF hasLabel THEN Tok(toks, p1 + 1).v ELSE <<>>,
                      hasProp |-> hasProp,
                      key |-> IF hasProp THEN Tok(toks, p2 + 1).v ELSE <<>>,
                      val |-> IF hasProp THEN Tok(toks, p2 + 3).v ELSE <<>>]]

KwMerge == <<"M", "E", "R", "G", "E">>

KwCreate == <<"C", "R", "E", "A", "T", "E">>

NoClause == [op |-> <<>>, n1 |-> NoNode, edge |-> FALSE, rel |-> <<>>, n2 |-> NoNode]

\* (MERGE | CREATE) node [ -[:rel]-> node ], a the node read after the keyword
ParseClauseAfter(toks, p, a) ==
  LET kw == Tok(toks, p)
      q == a.end
      arrow == /\ IsSym(toks, q, "-") /\ IsSym(toks, q + 1, "[")
               /\ IsSym(toks, q + 2, ":") /\ Tok(toks, q + 3).t = "word"
               /\ IsSym(toks, q + 4, "]") /\ IsSym(toks, q + 5, "-")
               /\ IsSym(toks, q + 6, ">")
      b == ParseNode(toks, q + 7)
  IN  IF ~(kw.t = "word" /\ kw.v \in {KwMerge, KwCreate} /\ a.ok)
      THEN [ok |-> FALSE, end |-> p, clause |-> NoClause]
      ELSE IF arrow
      THEN [ok |-> b.ok, end |-> b.end,
            clause |-> [op |-> kw.v, n1 |-> a.node, edge |-> TRUE,
                        rel |-> Tok(toks, q + 3).v, n2 |-> b.node]]
      ELSE [ok |-> TRUE, end |-> q,
            clause |-> [op |-> kw.v, n1 |-> a.node, edge |-> FALSE,
                        rel |-> <<>>, n2 |-> NoNode]]

ParseClause(toks, p) ==
  With(ParseNode(toks, p + 1), LAMBDA a : ParseClauseAfter(toks, p, a))

\* clause+ [;] to the end of the text
RECURSIVE ParseClauses(_, _)
ParseClauses(toks, p) ==
  IF p > Len(toks) \/ (p = Len(toks) /\ IsSym(toks, p, ";"))
  THEN [ok |-> TRUE, clauses |-> <<>>]
  ELSE With(ParseClause(toks, p), LAMBDA c :
         IF ~c.ok THEN [ok |-> FALSE, clauses |-> <<>>]
         ELSE With(ParseClauses(toks, c.end), LAMBDA rest :
                [ok |-> rest.ok, clauses |-> <<c.clause>> \o rest.clauses]))

\* The clauses of a query text, or ok = FALSE for a text the sink rejects.
ParseQuery(text) ==
  With(Lex(text), LAMBDA toks :
    IF toks = <<>> \/ \E p \in 1..Len(toks) : toks[p].t = "err"
    THEN [ok |-> FALSE, clauses |-> <<>>]
    ELSE ParseClauses(toks, 1))

\* A graph: its nodes in creation order (a node is its position) and its
\* edges, each a sequence so that duplicates would show.
EmptyGraph == [nodes |-> <<>>, edges |-> <<>>]

\* The nodes of g that the node pattern n matches.
Matches(g, n) ==
  {i \in 1..Len(g.nodes) :
     /\ n.label = <<>> \/ g.nodes[i].label = n.label
     /\ \/ ~n.hasProp
        \/ /\ g.nodes[i].hasProp
           /\ g.nodes[i].key = n.key
           /\ g.nodes[i].val = n.val}

NodeOf(n) == [label |-> n.label, hasProp |-> n.hasProp, key |-> n.key, val |-> n.val]

\* env is the set of the query's bindings [var, id].
Bound(env, var) == \E b \in env : b.var = var

Lookup(env, var) == (CHOOSE b \in env : b.var = var).id

\* A bare reference (v) to a variable the query has bound.
BoundRef(env, n) ==
  n.var # <<>> /\ Bound(env, n.var) /\ n.label = <<>> /\ ~n.hasProp

\* One clause on st = [ok, g, env].
\* MERGE binds the first matching node, and creates one when none matches;
\* CREATE always creates.
ExecClause(st, c) ==
  IF ~st.ok THEN st
  ELSE IF c.edge
  THEN IF ~(BoundRef(st.env, c.n1) /\ BoundRef(st.env, c.n2))
       THEN [st EXCEPT !.ok = FALSE]
       ELSE LET e == [src |-> Lookup(st.env, c.n1.var), rel |-> c.rel,
                      dst |-> Lookup(st.env, c.n2.var)]
            IN  IF c.op = KwMerge /\ \E i \in 1..Len(st.g.edges) : st.g.edges[i] = e
                THEN st
                ELSE [st EXCEPT !.g.edges = Append(@, e)]
  ELSE IF c.n1.var # <<>> /\ Bound(st.env, c.n1.var)
  THEN IF c.op = KwMerge /\ BoundRef(st.env, c.n1)
       THEN st
       ELSE [st EXCEPT !.ok = FALSE]
  ELSE LET m == Matches(st.g, c.n1)
           found == c.op = KwMerge /\ m # {}
           id == IF found THEN Min(m) ELSE Len(st.g.nodes) + 1
       IN  [ok |-> TRUE,
            g |-> IF found THEN st.g
                  ELSE [st.g EXCEPT !.nodes = Append(@, NodeOf(c.n1))],
            env |-> IF c.n1.var = <<>> THEN st.env
                    ELSE st.env \cup {[var |-> c.n1.var, id |-> id]}]

RECURSIVE ExecClauses(_, _)
ExecClauses(st, clauses) ==
  IF clauses = <<>> THEN st
  ELSE With(ExecClause(st, Head(clauses)),
            LAMBDA s : ExecClauses(s, Tail(clauses)))

\* One query on graph g: the graph after it, unchanged when it is rejected.
RunQuery(g, text) ==
  With(ParseQuery(text), LAMBDA q :
    With(ExecClauses([ok |-> TRUE, g |-> g, env |-> {}], q.clauses), LAMBDA r :
      IF q.ok /\ r.ok THEN [ok |-> TRUE, g |-> r.g]
      ELSE [ok |-> FALSE, g |-> g]))

\* Each statement of a batch as a query of its own, in order.
RECURSIVE ApplyBatch(_, _)
ApplyBatch(g, parts) ==
  IF parts = <<>> THEN g
  ELSE With(RunQuery(g, Head(parts)).g, LAMBDA g2 : ApplyBatch(g2, Tail(parts)))

\* ------------------------------------------------------------ the program

VARIABLES
  pc,                 \* where the program stands
  pdf_file,           \* what is at PDF_FILE_PATH: "missing", "report" (a PDF)
                      \* or "sample" (the sample text, which is no PDF)
  document_text,      \* automated_kg_pipeline's locals ...
  triples_list,
  full_cypher_query,
  counters,           \* "unset", "None" or "counters" (the driver's object)
  cypher_parts,       \* generate_cypher_query's list when its loop ended
  artifact,           \* the file generated_cypher.cypher
  driver,             \* Neo4jConnector.driver: "none", "open" or "closed"
  calls,              \* the session.run calls made
  sink_error,         \* what session.run raised, "none" when it did not
  out,                \* what was printed, in order
  graph,              \* CompileSpec: the sink's graph
  applied             \* CompileSpec: applications of each statement

vars ==
  <<pc, pdf_file, document_text, triples_list, full_cypher_query, counters, cypher_parts,
    artifact, driver, calls, sink_error, out, graph, applied>>

\* The page texts a PDF is made of; the sentences are those of the sample
\* report, and variations of them.
\* ""  (a page without text)
PageBlank == <<>>
\* "서론"
PageIntro == <<"K_seo", "K_ron">>
\* "A 컴퍼니는 금융 산업 분야의"
PageIndustry ==
  <<"A", " ", "K_keom", "K_peo", "K_ni", "K_neun", " ", "K_geum", "K_yung",
    " ", "K_san", "K_eop", " ", "K_bun", "K_ya", "K_ui">>
\* "프로젝트 AAA은 Python 기술을"
PageTech ==
  <<"K_peu", "K_ro", "K_jek", "K_teu", " ", "A", "A", "A", "K_eun", " ",
    "P", "y", "t", "h", "o", "n", " ", "K_gi", "K_sul", "K_eul">>
\* "프로젝트 BBB은 AWS 기술을 사용하며, B 컴퍼니에서 프로젝트 BBB를 수행"
PageBoth ==
  <<"K_peu", "K_ro", "K_jek", "K_teu", " ", "B", "B", "B", "K_eun", " ",
    "A", "W", "S", " ", "K_gi", "K_sul", "K_eul", " ",
    "K_sa", "K_yong", "K_ha", "K_myeo", ",", " ",
    "B", " ", "K_keom", "K_peo", "K_ni", "K_e", "K_seo", " ",
    "K_peu", "K_ro", "K_jek", "K_teu", " ", "B", "B", "B",
    "K_reul", " ", "K_su", "K_haeng">>
\* "프로젝트 A은 B 컴퍼니에서 프로젝트 BB를 수행 기술을"
PageOverlap ==
  <<"K_peu", "K_ro", "K_jek", "K_teu", " ", "A", "K_eun", " ",
    "B", " ", "K_keom", "K_peo", "K_ni", "K_e", "K_seo", " ",
    "K_peu", "K_ro", "K_jek", "K_teu", " ", "B", "B",
    "K_reul", " ", "K_su", "K_haeng", " ", "K_gi", "K_sul", "K_eul">>
\* "프로젝트 B은 C, 프로젝트 AAA은 Python 기술을"
PageEmbedded ==
  <<"K_peu", "K_ro", "K_jek", "K_teu", " ", "B", "K_eun", " ", "C", ",", " ",
    "K_peu", "K_ro", "K_jek", "K_teu", " ", "A", "A", "A", "K_eun", " ",
    "P", "y", "t", "h", "o", "n", " ", "K_gi", "K_sul", "K_eul">>

PageTexts ==
  {PageBlank, PageIntro, PageIndustry, PageTech, PageBoth, PageOverlap,
   PageEmbedded}

SeqsUpTo(S, n) == UNION {[1..k -> S] : k \in 0..n}

\* What pdfplumber.open or page.extract_text can raise.
PdfErrors == {"PDFSyntaxError", "TypeError"}

\* What session.run or result.consume can raise.
SinkErrors == {"ServiceUnavailable", "CypherSyntaxError"}

Say(msg, arg) == [msg |-> msg, arg |-> arg]

Printed(msg) == \E i \in 1..Len(out) : out[i].msg = msg

\* extract_text_from_pdf when nothing raises: every page's text and "\n\n".
RECURSIVE extract_text_from_pdf(_)
extract_text_from_pdf(pages) ==
  IF pages = <<>> THEN <<>>
  ELSE Head(pages) \o <<"\n", "\n">> \o extract_text_from_pdf(Tail(pages))

Init ==
  /\ pc = "main"
  /\ pdf_file \in {"missing", "report"}
  /\ document_text = <<>>
  /\ triples_list = <<>>
  /\ full_cypher_query = <<>>
  /\ counters = "unset"
  /\ cypher_parts = <<>>
  /\ artifact = [written |-> FALSE, content |-> <<>>]
  /\ driver = "none"
  /\ calls = 0
  /\ sink_error = "none"
  /\ out = <<>>
  /\ graph = EmptyGraph
  /\ applied = <<>>

\* with open(PDF_FILE_PATH, "w") as f: f.write(sample_content): the sample
\* text takes the place of whatever the path held.
WriteSample ==
  /\ pc = "main"
  /\ pdf_file' = "sample"
  /\ pc' = "connect"
  /\ UNCHANGED <<document_text, triples_list, full_cypher_query, counters,
                 cypher_parts, artifact, driver, calls, sink_error, out,
                 graph, applied>>

\* ... or open/write raising: caught, a note printed, the path as it was.
WriteSampleFails ==
  /\ pc = "main"
  /\ out' = Append(out, Say("need_pdf", <<>>))
  /\ pc' = "connect"
  /\ UNCHANGED <<pdf_file, document_text, triples_list, full_cypher_query,
                 counters, cypher_parts, artifact, driver, calls, sink_error,
                 graph, applied>>

\* connector = Neo4jConnector(URI, USER, PASSWORD)
Connect ==
  /\ pc = "connect"
  /\ UNCHANGED pdf_file
  /\ pc' = "pipeline"
  /\ driver' = "open"
  /\ out' = Append(out, Say("connected", <<>>))
  /\ UNCHANGED <<document_text, triples_list, full_cypher_query, counters,
                 cypher_parts, artifact, calls, sink_error, graph, applied>>

\* GraphDatabase.driver raises: nothing catches it, the program ends.
ConnectFails ==
  /\ pc = "connect"
  /\ UNCHANGED pdf_file
  /\ pc' = "aborted"
  /\ UNCHANGED <<document_text, triples_list, full_cypher_query, counters,
                 cypher_parts, artifact, driver, calls, sink_error, out,
                 graph, applied>>

\* document_text = extract_text_from_pdf(pdf_path), the PDF read to its end.
ExtractText ==
  /\ pc = "pipeline"
  /\ pdf_file = "report"
  /\ UNCHANGED pdf_file
  /\ \E pages \in SeqsUpTo(PageTexts, MaxPages) :
       /\ document_text' = extract_text_from_pdf(pages)
       /\ out' = out \o <<Say("pipeline_start", <<>>), Say("pdf_done", <<>>)>>
  /\ pc' = "text"
  /\ UNCHANGED <<triples_list, full_cypher_query, counters, cypher_parts,
                 artifact, driver, calls, sink_error, graph, applied>>

\* ... or pdfplumber raising (no file, no PDF, a broken one): caught,
\* reported, and "" returned.
ExtractTextFails ==
  /\ pc = "pipeline"
  /\ UNCHANGED pdf_file
  /\ \E e \in PdfErrors :
       out' = out \o <<Say("pipeline_start", <<>>), Say("pdf_error", <<e>>)>>
  /\ document_text' = <<>>
  /\ pc' = "text"
  /\ UNCHANGED <<triples_list, full_cypher_query, counters, cypher_parts,
                 artifact, driver, calls, sink_error, graph, applied>>

\* if not document_text: return
NoText ==
  /\ pc = "text"
  /\ UNCHANGED pdf_file
  /\ document_text = <<>>
  /\ pc' = "returned"
  /\ UNCHANGED <<document_text, triples_list, full_cypher_query, counters,
                 cypher_parts, artifact, driver, calls, sink_error, out,
                 graph, applied>>

\* triples_list = mock_nlp_to_triples(document_text)
MockNlp ==
  /\ pc = "text"
  /\ UNCHANGED pdf_file
  /\ document_text # <<>>
  /\ triples_list' = mock_nlp_to_triples(document_text)
  /\ out' = out \o <<Say("nlp_start", <<>>),
                     Say("nlp_count", <<Len(triples_list')>>)>>
  /\ pc' = "triples"
  /\ UNCHANGED <<document_text, full_cypher_query, counters, cypher_parts,
                 artifact, driver, calls, sink_error, graph, applied>>

\* The empty list going on to compilation, without the early return.
NoTriplesContinues ==
  /\ pc = "triples"
  /\ UNCHANGED pdf_file
  /\ triples_list = <<>>
  /\ cypher_parts' = CypherParts(triples_list)
  /\ full_cypher_query' = generate_cypher_query(triples_list)
  /\ pc' = "query"
  /\ UNCHANGED <<document_text, triples_list, counters, artifact, driver,
                 calls, sink_error, out, graph, applied>>

\* if not triples_list: print(...); return
NoTriples ==
  /\ pc = "triples"
  /\ UNCHANGED pdf_file
  /\ triples_list = <<>>
  /\ out' = Append(out, Say("no_triples", <<>>))
  /\ pc' = "returned"
  /\ UNCHANGED <<document_text, triples_list, full_cypher_query, counters,
                 cypher_parts, artifact, driver, calls, sink_error, graph,
                 applied>>

\* full_cypher_query = generate_cypher_query(triples_list)
GenerateCypher ==
  /\ pc = "triples"
  /\ UNCHANGED pdf_file
  /\ triples_list # <<>>
  /\ cypher_parts' = CypherParts(triples_list)
  /\ full_cypher_query' = generate_cypher_query(triples_list)
  /\ pc' = "query"
  /\ UNCHANGED <<document_text, triples_list, counters, artifact, driver,
                 calls, sink_error, out, graph, applied>>

\* with open("generated_cypher.cypher", "w") as f: f.write(full_cypher_query)
SaveQuery ==
  /\ pc = "query"
  /\ UNCHANGED pdf_file
  /\ artifact' = [written |-> TRUE, content |-> full_cypher_query]
  /\ out' = out \o <<Say("saved", <<>>), Say("loading", <<>>)>>
  /\ pc' = "saved"
  /\ UNCHANGED <<document_text, triples_list, full_cypher_query, counters,
                 cypher_parts, driver, calls, sink_error, graph, applied>>

\* ... or open/write raising OSError: no handler in automated_kg_pipeline nor
\* in its caller, the program ends with the traceback.
SaveQueryFails ==
  /\ pc = "query"
  /\ UNCHANGED pdf_file
  /\ pc' = "aborted"
  /\ UNCHANGED <<document_text, triples_list, full_cypher_query, counters,
                 cypher_parts, artifact, driver, calls, sink_error, out,
                 graph, applied>>

\* counters = neo4j_conn.execute_cypher(full_cypher_query): session.run and
\* consume succeed, summary.counters is returned.
ExecuteCypher ==
  /\ pc = "saved"
  /\ UNCHANGED pdf_file
  /\ calls' = calls + 1
  /\ counters' = "counters"
  /\ pc' = "executed"
  /\ UNCHANGED <<document_text, triples_list, full_cypher_query, cypher_parts,
                 artifact, driver, sink_error, out, graph, applied>>

\* session.run raising and the call made again.
ExecuteCypherRetries ==
  /\ pc = "saved"
  /\ UNCHANGED pdf_file
  /\ calls < 2
  /\ calls' = calls + 1
  /\ \E e \in SinkErrors :
       /\ sink_error' = e
       /\ out' = out \o <<Say("query_error", <<e>>),
                          Say("query", full_cypher_query)>>
  /\ counters' = "None"
  /\ pc' = "saved"
  /\ UNCHANGED <<document_text, triples_list, full_cypher_query, cypher_parts,
                 artifact, driver, graph, applied>>

\* ... or session.run raising: caught in execute_cypher, the error and the
\* query printed, None returned.
ExecuteCypherFails ==
  /\ pc = "saved"
  /\ UNCHANGED pdf_file
  /\ calls' = calls + 1
  /\ \E e \in SinkErrors :
       /\ sink_error' = e
       /\ out' = out \o <<Say("query_error", <<e>>),
                          Say("query", full_cypher_query)>>
  /\ counters' = "None"
  /\ pc' = "executed"
  /\ UNCHANGED <<document_text, triples_list, full_cypher_query, cypher_parts,
                 artifact, driver, graph, applied>>

\* if counters: the success lines, with counters.nodes and
\* counters.relationships read from the driver's object.
ReportSuccess ==
  /\ pc = "executed"
  /\ UNCHANGED pdf_file
  /\ counters = "counters"
  /\ out' = out \o <<Say("insert_ok", <<>>), Say("created", <<>>)>>
  /\ pc' = "returned"
  /\ UNCHANGED <<document_text, triples_list, full_cypher_query, counters,
                 cypher_parts, artifact, driver, calls, sink_error, graph,
                 applied>>

\* ... or the driver's counters object has no attribute nodes (the class is
\* the driver's, not this file's): AttributeError after the first success
\* line, which nothing catches.
ReportSuccessFails ==
  /\ pc = "executed"
  /\ UNCHANGED pdf_file
  /\ counters = "counters"
  /\ out' = Append(out, Say("insert_ok", <<>>))
  /\ pc' = "aborted"
  /\ UNCHANGED <<document_text, triples_list, full_cypher_query, counters,
                 cypher_parts, artifact, driver, calls, sink_error, graph,
                 applied>>

\* else: the failure lines
ReportFailure ==
  /\ pc = "executed"
  /\ UNCHANGED pdf_file
  /\ counters = "None"
  /\ out' = Append(out, Say("insert_failed", <<>>))
  /\ pc' = "returned"
  /\ UNCHANGED <<document_text, triples_list, full_cypher_query, counters,
                 cypher_parts, artifact, driver, calls, sink_error, graph,
                 applied>>

\* connector.close()
Close ==
  /\ pc = "returned"
  /\ UNCHANGED pdf_file
  /\ driver' = "closed"
  /\ out' = Append(out, Say("closed", <<>>))
  /\ pc' = "done"
  /\ UNCHANGED <<document_text, triples_list, full_cypher_query, counters,
                 cypher_parts, artifact, calls, sink_error, graph, applied>>

Next ==
  \/ WriteSample
  \/ WriteSampleFails
  \/ Connect
  \/ ConnectFails
  \/ ExtractText
  \/ ExtractTextFails
  \/ NoText
  \/ MockNlp
  \/ NoTriples
  \/ GenerateCypher
  \/ SaveQuery
  \/ SaveQueryFails
  \/ ExecuteCypher
  \/ ExecuteCypherFails
  \/ ReportSuccess
  \/ ReportSuccessFails
  \/ ReportFailure
  \/ Close

Spec == Init /\ [][Next]_vars

\* ------------------------------------- generate_cypher_query and the sink
\* generate_cypher_query on triples of the rule table's three shapes, and
\* the sink applying the statements, each a query of its own, in any order
\* and any number of times.

\* "프로젝트 A", "프로젝트 BB", "A 컴퍼니"
NameProjectA == <<"K_peu", "K_ro", "K_jek", "K_teu", " ", "A">>
NameProjectBB == <<"K_peu", "K_ro", "K_jek", "K_teu", " ", "B", "B">>
NameCompanyA == <<"A", " ", "K_keom", "K_peo", "K_ni">>

\* What the lazy .+? of a pattern can capture before " 기술" or " 산업":
\* Python   it's   a\   \'   \'}) CREATE (:X) //   금융
BodyPython == <<"P", "y", "t", "h", "o", "n">>
BodyQuote == <<"i", "t", "'", "s">>
BodyBackslash == <<"a", "\\">>
BodyBackslashQuote == <<"\\", "'">>
BodyInjection ==
  <<"\\", "'", "}", ")", " ", "C", "R", "E", "A", "T", "E", " ",
    "(", ":", "X", ")", " ", "/", "/">>
BodyFinance == <<"K_geum", "K_yung">>

TechBodies ==
  {BodyPython, BodyQuote, BodyBackslash, BodyBackslashQuote, BodyInjection}

CompileTriples ==
  {<<"Project", NameProjectA, "USES_TECH", "Technology", b \o LitTech>> :
     b \in TechBodies}
  \cup {<<"Company", NameCompanyA, "CONDUCTS", "Project", p>> :
          p \in {NameProjectA, NameProjectBB}}
  \cup {<<"Company", NameCompanyA, "BELONGS_TO", "Industry",
          BodyFinance \o LitIndustry>>}

CompileInit ==
  /\ pc = "compile"
  /\ pdf_file = "missing"
  /\ triples_list \in SeqsUpTo(CompileTriples, MaxTriples)
  /\ document_text = <<>>
  /\ full_cypher_query = <<>>
  /\ counters = "unset"
  /\ cypher_parts = <<>>
  /\ artifact = [written |-> FALSE, content |-> <<>>]
  /\ driver = "none"
  /\ calls = 0
  /\ sink_error = "none"
  /\ out = <<>>
  /\ graph = EmptyGraph
  /\ applied = <<>>

\* generate_cypher_query(triples_list)
CompileBatch ==
  /\ pc = "compile"
  /\ UNCHANGED pdf_file
  /\ cypher_parts' = CypherParts(triples_list)
  /\ full_cypher_query' = generate_cypher_query(triples_list)
  /\ applied' = [i \in 1..Len(triples_list) |-> 0]
  /\ pc' = "sink"
  /\ UNCHANGED <<document_text, triples_list, counters, artifact, driver,
                 calls, sink_error, out, graph>>

RECURSIVE Sum(_)
Sum(s) == IF s = <<>> THEN 0 ELSE Head(s) + Sum(Tail(s))

\* The sink runs statement k.
SinkApply(k) ==
  /\ pc = "sink"
  /\ UNCHANGED pdf_file
  /\ Sum(applied) < MaxApply
  /\ graph' = RunQuery(graph, cypher_parts[k]).g
  /\ applied' = [applied EXCEPT ![k] = @ + 1]
  /\ UNCHANGED <<pc, document_text, triples_list, full_cypher_query, counters,
                 cypher_parts, artifact, driver, calls, sink_error, out>>

CompileNext ==
  \/ CompileBatch
  \/ \E k \in 1..Len(cypher_parts) : SinkApply(k)

CompileSpec == CompileInit /\ [][CompileNext]_vars

\* ------------------------------------------------------------ properties

Range(s) == {s[i] : i \in 1..Len(s)}

\* The sequence s without the later copies of its elements.
RECURSIVE Unique(_)
Unique(s) ==
  IF s = <<>> THEN <<>>
  ELSE LET front == Unique(SubSeq(s, 1, Len(s) - 1))
       IN  IF s[Len(s)] \in Range(front) THEN front
           ELSE Append(front, s[Len(s)])

\* part occurs in s
Occurs(s, part) == \E i \in 1..Len(s) : LitAt(s, i, part)

\* mock_nlp_to_triples has run on a text.
Extracted == document_text # <<>> /\ pc # "text"

\* automated_kg_pipeline has returned to its caller.
Returned == pc \in {"returned", "done"}

\* "프로젝트 AAA"
NameProjectAAA == <<"K_peu", "K_ro", "K_jek", "K_teu", " ", "A", "A", "A">>

\* C4 as claimed: a text that contains "프로젝트 AAA은 Python 기술을" yields
\* (Project, "프로젝트 AAA", USES_TECH, Technology, "Python").
C4_ObjectIsTechnologyAlone ==
  (Extracted /\ Occurs(document_text, PageTech)) =>
    <<"Project", NameProjectAAA, "USES_TECH", "Technology", BodyPython>>
      \in Range(triples_list)

\* C4, amended: a text in which "프로젝트 AAA은 Python 기술을" starts a line
\* yields (Project, "프로젝트 AAA", USES_TECH, Technology, "Python 기술"):
\* the object name is the whole second group, keyword included.
C4_ObjectKeepsKeyword ==
  Extracted =>
    \A i \in 1..Len(document_text) :
      (/\ LitAt(document_text, i, PageTech)
       /\ i = 1 \/ document_text[i - 1] = "\n")
      => <<"Project", NameProjectAAA, "USES_TECH", "Technology",
           BodyPython \o LitTech>> \in Range(triples_list)

C4_Witness ==
  /\ pc = "triples"
  /\ LitAt(document_text, 1, PageTech)
  /\ <<"Project", NameProjectAAA, "USES_TECH", "Technology",
       BodyPython \o LitTech>> \in Range(triples_list)

\* C3: the triples that reach generate_cypher_query hold no triple twice and
\* are the extracted ones in first-occurrence order, one statement each.
C3_NoDuplicateTriples ==
  (Extracted /\ cypher_parts # <<>>) =>
    /\ \A i, j \in 1..Len(triples_list) :
         triples_list[i] = triples_list[j] => i = j
    /\ triples_list = Unique(mock_nlp_to_triples(document_text))
    /\ Len(cypher_parts) = Len(triples_list)

\* C10: one triple per match of each pattern, the patterns in the order of
\* the code and each over the whole text, the matches in text order, the
\* names the stripped groups, nothing dropped.
C10_OneTriplePerMatch ==
  Extracted =>
    LET pk == project_keywords(document_text)
        ck == company_proj_keywords(document_text)
        ik == industry_keywords(document_text)
    IN  /\ Len(triples_list) = Len(pk) + Len(ck) + Len(ik)
        /\ \A i \in 1..Len(pk) :
             triples_list[i] =
               <<"Project", Strip(pk[i][1]), "USES_TECH",
                 "Technology", Strip(pk[i][2])>>
        /\ \A i \in 1..Len(ck) :
             triples_list[Len(pk) + i] =
               <<"Company", Strip(ck[i][1]), "CONDUCTS",
                 "Project", Strip(ck[i][2])>>
        /\ \A i \in 1..Len(ik) :
             triples_list[Len(pk) + Len(ck) + i] =
               <<"Company", Strip(ik[i][1]), "BELONGS_TO",
                 "Industry", Strip(ik[i][2])>>

\* A text with the same sentence twice, in which a CONDUCTS match lies
\* inside a USES_TECH match: both triples are there, twice each.
C10_Witness ==
  /\ pc = "triples"
  /\ \E i, j \in 1..Len(triples_list) :
       i < j /\ triples_list[i] = triples_list[j]
  /\ \E i, j \in 1..Len(triples_list) :
       /\ triples_list[i][3] = "USES_TECH"
       /\ triples_list[j][3] = "CONDUCTS"
       /\ Occurs(triples_list[i][5], triples_list[j][5])

C6_SinkFailureCaughtOnce ==
  /\ calls <= 1
  /\ sink_error # "none" =>
       /\ calls = 1
       /\ pc # "aborted"
       /\ counters = "None"
       /\ \E i \in 1..Len(out) :
            out[i].msg = "query_error" /\ out[i].arg = <<sink_error>>
       /\ ~Printed("insert_ok")
       /\ Returned => Printed("insert_failed")

C6_Witness ==
  /\ pc = "done"
  /\ sink_error # "none"
  /\ Printed("insert_failed")

\* C7: automated_kg_pipeline, once called, returns to its caller: no run
\* ends in an error that nothing handles.
C7_PipelineAlwaysReturns == pc = "aborted" => driver = "none"

\* C8: a program that has opened the driver ends with the driver closed.
C8_DriverClosedAtExit == pc \in {"done", "aborted"} => driver # "open"

\* The statements are compiled and handed to the sink.
Compiled == pc = "sink"

\* The number of quotes in a name.
Quotes(name) == Cardinality({j \in 1..Len(name) : name[j] = "'"})

\* Where the two payloads of triple t's statement stand: a1 and a2
\* characters before them, s1 and s2 characters long.
Layout(t) ==
  LET a1 == Len(TplN1) + Len(Chars[t[1]]) + Len(TplName)
      s1 == Len(t[2]) + Quotes(t[2])
  IN  [a1 |-> a1, s1 |-> s1,
       a2 |-> a1 + s1 + Len(TplN2) + Len(Chars[t[4]]) + Len(TplName),
       s2 |-> Len(t[5]) + Quotes(t[5])]

\* A payload without the backslash the compiler wrote before each quote.
RECURSIVE Unquote(_)
Unquote(s) ==
  IF s = <<>> THEN <<>>
  ELSE IF Len(s) >= 2 /\ s[1] = "\\" /\ s[2] = "'"
  THEN <<"'">> \o Unquote(SubSeq(s, 3, Len(s)))
  ELSE <<Head(s)>> \o Unquote(Tail(s))

\* text is the statement of triple t and of no other.
StatementOf(text, t) ==
  LET l == Layout(t)
      p1 == SubSeq(text, l.a1 + 1, l.a1 + l.s1)
      p2 == SubSeq(text, l.a2 + 1, l.a2 + l.s2)
  IN  /\ text = TplN1 \o Chars[t[1]] \o TplName \o p1
                \o TplN2 \o Chars[t[4]] \o TplName \o p2
                \o TplRel \o Chars[t[3]] \o TplEnd
      /\ Unquote(p1) = t[2]
      /\ Unquote(p2) = t[5]

\* C9: n triples compile to n statements, the i-th the statement of the
\* i-th triple (its labels, its relation, its two names as payloads); no
\* triple, no statement and an empty query.
C9_OneStatementPerTriple ==
  Compiled =>
    /\ Len(cypher_parts) = Len(triples_list)
    /\ \A i \in 1..Len(triples_list) :
         StatementOf(cypher_parts[i], triples_list[i])
    /\ full_cypher_query = Join(cypher_parts, <<"\n">>)
    /\ triples_list = <<>> => full_cypher_query = <<>>

C9_Witness ==
  /\ Compiled
  /\ Len(cypher_parts) = 2
  /\ triples_list[1] # triples_list[2]
  /\ \E i \in 1..2 : Quotes(triples_list[i][5]) > 0

\* The sink reads payload number n of triple t's statement as a literal that
\* ends at the compiler's closing quote and has the name as its value.
ReadsBack(text, before, size, name) ==
  LET r == ReadString(text, before + 1)
  IN  /\ r.ok
      /\ r.end = before + size + 2
      /\ r.val = name

\* C1: each name's literal, read by the sink's rules, ends at the closing
\* quote the compiler wrote and decodes to the name, and the statement is
\* two node MERGEs and one edge MERGE.
C1_LiteralReadsBack ==
  Compiled =>
    \A i \in 1..Len(cypher_parts) :
      LET t == triples_list[i]
          l == Layout(t)
          q == ParseQuery(cypher_parts[i])
      IN  /\ ReadsBack(cypher_parts[i], l.a1, l.s1, t[2])
          /\ ReadsBack(cypher_parts[i], l.a2, l.s2, t[5])
          /\ q.ok
          /\ Len(q.clauses) = 3
          /\ \A c \in 1..3 : q.clauses[c].op = KwMerge
          /\ ~q.clauses[1].edge
          /\ ~q.clauses[2].edge
          /\ q.clauses[3].edge

\* The nodes of g by label and properties, and its edges by their ends.
NodeKeys(g) == Range(g.nodes)

EdgeKeys(g) ==
  {<<g.nodes[e.src], e.rel, g.nodes[e.dst]>> : e \in Range(g.edges)}

\* C2: once every statement of the batch has been applied, further
\* applications, in any order, leave the nodes and edges those of one
\* application: one node per key, one edge per key.
C2_BatchIdempotent ==
  (Compiled /\ \A k \in 1..Len(applied) : applied[k] >= 1) =>
    LET once == ApplyBatch(EmptyGraph, cypher_parts)
    IN  /\ NodeKeys(graph) = NodeKeys(once)
        /\ EdgeKeys(graph) = EdgeKeys(once)
        /\ Len(graph.nodes) = Cardinality(NodeKeys(graph))
        /\ Len(graph.edges) = Cardinality(EdgeKeys(graph))

====
